---- MODULE Spec2Model ----
(***************************************************************************)
(* Model of celery-queue/tasks.py of the GENEA visualizer: the BVH         *)
(* validator validate_bvh_file and the celery task render.                 *)
(*                                                                         *)
(* A file is the list of lines file_content.split("\n") yields; a line is  *)
(* a record [k, v]:                                                        *)
(*   "row"         any non-blank line that is no keyword line (v = 0)      *)
(*   "MOTION"      the marker line                         (v = 0)         *)
(*   "Frames:"     the line "Frames: v"                                    *)
(*   "Frame Time:" the line "Frame Time: t", v = t in microseconds         *)
(*   "blank"       a line of v spaces (v = 0: the empty string)            *)
(*   "badbyte"     a line holding a byte that is no UTF-8                  *)
(* The last element of the list is the text after the last newline (the   *)
(* empty string when the file ends with a newline).                        *)
(***************************************************************************)
EXTENDS Integers, Sequences, FiniteSets, TLC

VARIABLES
    MAX_NUMBER_FRAMES,  \* os.environ["MAX_NUMBER_FRAMES"], -1 = unlimited
    RENDER_FPS,         \* os.environ["RENDER_FPS"]
    bvh_file,           \* the bytes under validation / fetched by render
    vres,               \* outcome of validate_bvh_file (SpecV)
    pc,                 \* position of the render invocation
    phase,              \* task state as the celery backend shows it
    getStatus,          \* HTTP status of the GET (0: no response yet)
    validated,          \* the bytes validate_bvh_file returned normally on
    tmpf,               \* the NamedTemporaryFile: [exists, data]
    tmpCreated,         \* number of temporary files ever created
    spawned,            \* number of subprocesses ever spawned
    total,              \* local variable total
    current_frame,      \* local variable current_frame
    lastLine,           \* the stdout line read last
    nread,              \* number of stdout lines read
    seenTotal,          \* a total_frames line has been parsed
    seenAppend,         \* an Append frame line has been parsed
    published,          \* the update_state(RENDERING) calls, in order
    uploads,            \* the upload POSTs made: sequence of [file, status]
    exitCode,           \* exit status of the renderer process
    returncode,         \* process.returncode as the Popen object holds it
    stderrText,         \* what the renderer wrote to stderr
    result,             \* return value of render
    failure,            \* the exception render ended with
    inv,                \* SpecC: the locals of each concurrent invocation
    tmpdir,             \* SpecC: the temporary directory, name -> content
    backend             \* SpecC: the celery result backend, task id -> entry

vars == << MAX_NUMBER_FRAMES, RENDER_FPS, bvh_file, vres, pc, phase, getStatus,
           validated, tmpf, tmpCreated, spawned, total, current_frame, lastLine,
           nread, seenTotal, seenAppend, published, uploads, exitCode,
           returncode, stderrText, result, failure, inv, tmpdir, backend >>

\* the variables of the concurrent invocations of SpecC
concVars == << inv, tmpdir, backend >>

-----------------------------------------------------------------------------
(* Bounds of the model *)

MaxLines == 5        \* lines of a file under validation
MaxStdout == 3       \* stdout lines the renderer writes
MaxConcStdout == 2   \* stdout lines of each of two concurrent renderers

-----------------------------------------------------------------------------
(* Python values *)

\* Python's None, where the code keeps an int or None in one variable
None == -999

\* truth value of an int-or-None, as in "if total and current_frame"
Truthy(v) == v # None /\ v # 0

L(k, v) == [k |-> k, v |-> v]

Row == L("row", 0)
Motion == L("MOTION", 0)
BadByte == L("badbyte", 0)
EmptyLine == L("blank", 0)

FramesValues == {1, 2}
FrameTimeValues == {40000}
MaxFramesValues == {-1, 1}
FpsValues == {20, 25}

LineAlphabet ==
    {Row, Motion, EmptyLine, L("blank", 1)}
        \cup {L("Frames:", n) : n \in FramesValues}
        \cup {L("Frame Time:", t) : t \in FrameTimeValues}

SeqsUpTo(S, n) == UNION {[1..m -> S] : m \in 1..n}

\* the files validate_bvh_file is tried on
AllContents ==
    SeqsUpTo(LineAlphabet, MaxLines)
        \cup {<<BadByte>>, <<Motion, BadByte, EmptyLine>>}

-----------------------------------------------------------------------------
(* validate_bvh_file *)

\* bytes.decode("utf-8") succeeds
Decodes(content) == \A i \in 1..Len(content) : content[i].k # "badbyte"

\* a strip that leaves the whitespace of a line in place
Strip_Nothing(line) == line

\* str.strip() of a line
Strip(line) == IF line.k = "blank" THEN EmptyLine ELSE line

\* truth value of a str: it is not empty
NonEmpty(line) == line # EmptyLine

\* the loop of lines 41-46: counter after the first n lines
RECURSIVE CounterAfter(_, _)
CounterAfter(content, n) ==
    IF n = 0 THEN None
    ELSE LET c == CounterAfter(content, n - 1)
             line == content[n]
             c1 == IF c # None /\ NonEmpty(Strip(line)) THEN c + 1 ELSE c
         IN  IF Strip(line) = Motion THEN -2 ELSE c1

Counter(content) == CounterAfter(content, Len(content))

\* Bvh.tokenize, first round: the lines ended by a newline whose text is not
\* empty (the text after the last newline is never flushed)
BvhItems(content) ==
    SelectSeq(SubSeq(content, 1, Len(content) - 1), NonEmpty)

\* Bvh.tokenize, second round: the items up to and including the first
\* "Frame Time:" item become children of the root, the rest are frames
\* (the lines of a HIERARCHY block with balanced braces are "row" lines here:
\* they put no "Frames:" or "Frame" node under the root)
RECURSIVE RootChildrenOf(_)
RootChildrenOf(items) ==
    IF items = << >> THEN << >>
    ELSE IF Head(items).k = "Frame Time:" THEN << Head(items) >>
    ELSE << Head(items) >> \o RootChildrenOf(Tail(items))

RootChildren(content) == RootChildrenOf(BvhItems(content))

\* root.filter(key): the children whose first token is key
Filter(content, key) ==
    SelectSeq(RootChildren(content), LAMBDA item : item.k = key)

\* Bvh.nframes: None stands for the LookupError it raises
nframes(content) ==
    IF Filter(content, "Frames:") = << >> THEN None
    ELSE Head(Filter(content, "Frames:")).v

\* Bvh.frame_time in microseconds: None stands for the LookupError
frame_time(content) ==
    IF Filter(content, "Frame Time:") = << >> THEN None
    ELSE Head(Filter(content, "Frame Time:")).v

\* a frame time test that compares the wrong way round
FrameTimeDiffers_Inverted(t, fps) == t * fps = 1000000

\* mocap.frame_time != 1.0 / float(RENDER_FPS), both exact decimals
FrameTimeDiffers(t, fps) == t * fps # 1000000

\* a limit test that forgets the unlimited value -1
OverLimit_NoSentinel(n, max) == n > max

\* a limit test that lets every count through
OverLimit_Never(n, max) == FALSE

\* a limit test that is off by one
OverLimit_OffByOne(n, max) == max # -1 /\ n >= max

\* MAX_NUMBER_FRAMES != -1 and mocap.nframes > MAX_NUMBER_FRAMES
OverLimit(n, max) == max # -1 /\ n > max

\* a count test that lets an unarmed counter through
CountDiffers_ArmedOnly(n, counter) == counter # None /\ n # counter

\* mocap.nframes != counter
CountDiffers(n, counter) == n # counter

Outcome(exc, reason, a, b) == [exc |-> exc, reason |-> reason, a |-> a, b |-> b]

Ok == Outcome("none", "", 0, 0)
NotRun == Outcome("notrun", "", 0, 0)

\* validate_bvh_file: Ok when it returns, else the exception it raises; a
\* TaskFailure carries the two numbers of its message
validate_bvh_file(content, max, fps) ==
    LET n == nframes(content)
        counter == Counter(content)
        t == frame_time(content)
    IN  IF ~Decodes(content) THEN Outcome("UnicodeDecodeError", "", 0, 0)
        ELSE IF n = None
            THEN Outcome("LookupError", "number of frames not found", 0, 0)
        ELSE IF CountDiffers(n, counter)
            THEN Outcome("TaskFailure", "frame count mismatch", counter, n)
        ELSE IF OverLimit(n, max)
            THEN Outcome("TaskFailure", "too many frames", n, max)
        ELSE IF t = None
            THEN Outcome("LookupError", "frame time not found", 0, 0)
        ELSE IF FrameTimeDiffers(t, fps)
            THEN Outcome("TaskFailure", "frame time mismatch", t, fps)
        ELSE Ok

-----------------------------------------------------------------------------
(* Specification SpecV: validate_bvh_file applied to every bounded file *)

NoFile == << >>
NoTmp == [exists |-> FALSE, data |-> NoFile]

RenderIdle ==
    /\ phase = "QUEUED"
    /\ getStatus = 0
    /\ validated = NoFile
    /\ tmpf = NoTmp
    /\ tmpCreated = 0
    /\ spawned = 0
    /\ total = None
    /\ current_frame = None
    /\ lastLine = L("none", 0)
    /\ nread = 0
    /\ seenTotal = FALSE
    /\ seenAppend = FALSE
    /\ published = << >>
    /\ uploads = << >>
    /\ exitCode = None
    /\ returncode = None
    /\ stderrText = ""
    /\ result = ""
    /\ failure = NotRun

\* the invocations of SpecC: celery gives each its own task id
Tasks == {"task-1", "task-2"}

\* the names NamedTemporaryFile may pick in the temporary directory
TmpNames == {"tmp-a.bhv", "tmp-b.bhv", "tmp-c.bhv"}

NoMeta == [current |-> None, total |-> None]

\* the locals of an invocation that has not started, with what it has
\* reported of itself: state, meta, result and failure
IdleInvocation ==
    [pc |-> "start", file |-> NoFile, tmpname |-> "", total |-> None,
     current |-> None, nread |-> 0, state |-> "QUEUED", meta |-> NoMeta,
     result |-> "", failure |-> NotRun]

\* what the result backend holds of an invocation
EntryOf(r) ==
    [state |-> r.state, meta |-> r.meta, result |-> r.result,
     failure |-> r.failure]

ConcIdle ==
    /\ inv = [t \in Tasks |-> IdleInvocation]
    /\ tmpdir = [n \in TmpNames |-> NoFile]
    /\ backend = [t \in Tasks |-> EntryOf(IdleInvocation)]

InitV ==
    /\ ConcIdle
    /\ MAX_NUMBER_FRAMES \in MaxFramesValues
    /\ RENDER_FPS \in FpsValues
    /\ bvh_file \in AllContents
    /\ vres = NotRun
    /\ pc = "validator"
    /\ RenderIdle

Validate ==
    /\ pc = "validator"
    /\ vres = NotRun
    /\ vres' = validate_bvh_file(bvh_file, MAX_NUMBER_FRAMES, RENDER_FPS)
    /\ UNCHANGED << MAX_NUMBER_FRAMES, RENDER_FPS, bvh_file, pc, phase,
                    getStatus, validated, tmpf, tmpCreated, spawned, total,
                    current_frame, lastLine, nread, seenTotal, seenAppend,
                    published, uploads, exitCode, returncode, stderrText,
                    result, failure >>
    /\ UNCHANGED concVars

NextV == Validate

SpecV == InitV /\ [][NextV]_vars

-----------------------------------------------------------------------------
(* render: the renderer's stdout protocol (lines 94-111)                   *)
(*                                                                         *)
(* A stdout line, decoded and stripped, is a record [k, v]:                *)
(*   "total_frames"  "total_frames x", v = the literal x in tenths         *)
(*   "Append frame"  "Append frame v"                                      *)
(*   "output_file"   "output_file <path>", v names the path                *)
(*   "malformed"     a line with one of the prefixes whose split or number *)
(*                   conversion raises ValueError                          *)
(*   "other"         any other line                                        *)
(***************************************************************************)

TotalLiterals == {0, 15, 20}
FrameNumbers == {0, 1, 2}

StdoutAlphabet ==
    {L("total_frames", x) : x \in TotalLiterals}
        \cup {L("Append frame", n) : n \in FrameNumbers}
        \cup {L("output_file", 1), L("malformed", 0), L("other", 0)}

StderrTexts == {"", "render engine crashed"}
ExitCodes == {0, 1}

\* int(float(x)) of a literal given in tenths: truncation
IntOfFloat(tenths) == tenths \div 10

\* line 96-98: total after the line
NewTotal(line, t) ==
    IF line.k = "total_frames" THEN IntOfFloat(line.v) ELSE t

\* line 99-101: current_frame after the line
NewCurrent(line, c) ==
    IF line.k = "Append frame" THEN line.v ELSE c

\* a parser that rejects every line it does not know
Raises_Unknown(line) == line.k \in {"malformed", "other"}

\* the line makes split, int or float raise ValueError
Raises(line) == line.k = "malformed"

\* a prefix test that takes other lines for output_file lines
IsOutputFile_Loose(line) == line.k \in {"output_file", "other"}

\* line 102: line.startswith("output_file")
IsOutputFile(line) == line.k = "output_file"

\* a loop body that goes on to the progress test after an output_file line
ReachesProgressTest_Always(line) == TRUE

\* line 102-107 return from render: the test of line 108 is reached for
\* every line but an output_file line
ReachesProgressTest(line) == line.k # "output_file"

\* a progress test satisfied by one of the two values
ShouldPublish_Either(t, c) == Truthy(t) \/ Truthy(c)

\* line 108: if total and current_frame
ShouldPublish(t, c) == Truthy(t) /\ Truthy(c)

\* line 109-111: the meta of the update
Update(t, c) == [current |-> c, total |-> t]

\* an exit test that takes a returncode of None for success
ExitRaises_NoneIsSuccess(rc) == rc # None /\ rc # 0

\* an exit test that never fails the task
ExitRaises_Never(rc) == FALSE

\* line 112: process.returncode != 0
ExitRaises(rc) == rc # 0

\* the response bodies of the upload endpoint, by HTTP status
ResponseBody(status) == IF status = 200 THEN "video-url" ELSE "error-page"

TaskFailureOf(msg) == Outcome("TaskFailure", msg, 0, 0)
Exception(name) == Outcome(name, "", 0, 0)

-----------------------------------------------------------------------------
(* render: the files the API server may answer the GET with *)

GoodShort ==
    << Motion, L("Frames:", 1), L("Frame Time:", 40000), Row, EmptyLine >>
GoodLong ==
    << Row, Motion, L("Frames:", 2), L("Frame Time:", 40000), Row, Row,
       EmptyLine >>
MissingRow ==
    << Motion, L("Frames:", 2), L("Frame Time:", 40000), Row, EmptyLine >>
NoMotion ==
    << L("Frames:", 1), L("Frame Time:", 40000), Row, EmptyLine >>
ErrorPage == << Row >>

ServedFiles == {GoodShort, GoodLong, MissingRow, NoMotion, << BadByte >>}

-----------------------------------------------------------------------------
(* render: the steps of one invocation *)

envVars == << MAX_NUMBER_FRAMES, RENDER_FPS >>
loopVars == << total, current_frame, lastLine, nread, seenTotal, seenAppend,
               published >>
procVars == << exitCode, returncode, stderrText >>

\* a validator that lets every file through
AfterValidation_Ignored(out) == "spawn"

\* line 73: an exception of validate_bvh_file ends render
AfterValidation(out) == IF out = Ok THEN "spawn" ELSE "failed"

\* line 76: tmpf.write(bvh_file)
Written(data) == data

\* a with block that leaves the temporary file behind
Removed_Leaks(f) == f

\* leaving the with block of line 75 removes the temporary file
Removed(f) == [exists |-> FALSE, data |-> f.data]

Init ==
    /\ ConcIdle
    /\ MAX_NUMBER_FRAMES \in MaxFramesValues
    /\ RENDER_FPS \in FpsValues
    /\ bvh_file = NoFile
    /\ vres = NotRun
    /\ pc = "start"
    /\ RenderIdle

\* lines 69-70: update_state(state="PROCESSING")
Pickup ==
    /\ pc = "start"
    /\ phase' = "PROCESSING"
    /\ pc' = "fetch"
    /\ UNCHANGED << envVars, bvh_file, vres, getStatus, validated, tmpf,
                    tmpCreated, spawned, loopVars, uploads, procVars, result,
                    failure >>
    /\ UNCHANGED concVars

\* line 72: requests.get raises (no connection)
FetchRaises ==
    /\ pc = "fetch"
    /\ pc' = "failed"
    /\ phase' = "FAILED"
    /\ failure' = Exception("ConnectionError")
    /\ UNCHANGED << envVars, bvh_file, vres, getStatus, validated, tmpf,
                    tmpCreated, spawned, loopVars, uploads, procVars, result >>
    /\ UNCHANGED concVars

\* line 72: requests.get(...).content, whatever the status of the response
Fetch ==
    /\ pc = "fetch"
    /\ \E status \in {200, 404} :
         /\ getStatus' = status
         /\ IF status = 200
              THEN bvh_file' \in ServedFiles
              ELSE bvh_file' = ErrorPage
    /\ pc' = "validate"
    /\ UNCHANGED << envVars, vres, phase, validated, tmpf, tmpCreated, spawned,
                    loopVars, uploads, procVars, result, failure >>
    /\ UNCHANGED concVars

\* line 73: validate_bvh_file(bvh_file)
RunValidator ==
    /\ pc = "validate"
    /\ vres' = validate_bvh_file(bvh_file, MAX_NUMBER_FRAMES, RENDER_FPS)
    /\ pc' = AfterValidation(vres')
    /\ IF pc' = "failed"
         THEN /\ phase' = "FAILED"
              /\ failure' = vres'
              /\ UNCHANGED validated
         ELSE /\ validated' = bvh_file
              /\ UNCHANGED << phase, failure >>
    /\ UNCHANGED << envVars, bvh_file, getStatus, tmpf, tmpCreated, spawned,
                    loopVars, uploads, procVars, result >>
    /\ UNCHANGED concVars

\* lines 75-93: the temporary file is written and the renderer started
Spawn ==
    /\ pc = "spawn"
    /\ tmpf' = [exists |-> TRUE, data |-> Written(bvh_file)]
    /\ tmpCreated' = tmpCreated + 1
    /\ spawned' = spawned + 1
    /\ total' = None
    /\ current_frame' = None
    /\ pc' = "lines"
    /\ UNCHANGED << envVars, bvh_file, vres, phase, getStatus, validated,
                    lastLine, nread, seenTotal, seenAppend, published, uploads,
                    procVars, result, failure >>
    /\ UNCHANGED concVars

\* lines 75-91: subprocess.Popen raises (no executable); the with block
\* removes the temporary file
SpawnRaises ==
    /\ pc = "spawn"
    /\ tmpf' = Removed([exists |-> TRUE, data |-> Written(bvh_file)])
    /\ tmpCreated' = tmpCreated + 1
    /\ pc' = "failed"
    /\ phase' = "FAILED"
    /\ failure' = Exception("OSError")
    /\ UNCHANGED << envVars, bvh_file, vres, getStatus, validated, spawned,
                    loopVars, uploads, procVars, result >>
    /\ UNCHANGED concVars

\* lines 94-111: one iteration of the loop over process.stdout
ReadLine ==
    /\ pc = "lines"
    /\ nread < MaxStdout
    /\ \E line \in StdoutAlphabet :
         /\ lastLine' = line
         /\ nread' = nread + 1
         /\ IF Raises(line)
              THEN /\ pc' = "failed"
                   /\ phase' = "FAILED"
                   /\ failure' = Exception("ValueError")
                   /\ tmpf' = Removed(tmpf)
                   /\ UNCHANGED << total, current_frame, seenTotal, seenAppend,
                                   published >>
              ELSE /\ total' = NewTotal(line, total)
                   /\ current_frame' = NewCurrent(line, current_frame)
                   /\ seenTotal' = (seenTotal \/ line.k = "total_frames")
                   /\ seenAppend' = (seenAppend \/ line.k = "Append frame")
                   /\ pc' = IF IsOutputFile(line) THEN "upload" ELSE "lines"
                   /\ IF ReachesProgressTest(line)
                         /\ ShouldPublish(total', current_frame')
                        THEN /\ published' =
                                  Append(published, Update(total', current_frame'))
                             /\ phase' = "RENDERING"
                        ELSE UNCHANGED << published, phase >>
                   /\ UNCHANGED << tmpf, failure >>
    /\ UNCHANGED << envVars, bvh_file, vres, getStatus, validated, tmpCreated,
                    spawned, uploads, procVars, result >>
    /\ UNCHANGED concVars

\* lines 104-107: open(file_name) raises; nothing is posted
UploadOpenRaises ==
    /\ pc = "upload"
    /\ pc' = "failed"
    /\ phase' = "FAILED"
    /\ failure' = Exception("FileNotFoundError")
    /\ tmpf' = Removed(tmpf)
    /\ UNCHANGED << envVars, bvh_file, vres, getStatus, validated, tmpCreated,
                    spawned, loopVars, uploads, procVars, result >>
    /\ UNCHANGED concVars

\* lines 105-107: requests.post raises (no connection)
UploadRaises ==
    /\ pc = "upload"
    /\ uploads' = Append(uploads, [file |-> lastLine.v, status |-> 0])
    /\ pc' = "failed"
    /\ phase' = "FAILED"
    /\ failure' = Exception("ConnectionError")
    /\ tmpf' = Removed(tmpf)
    /\ UNCHANGED << envVars, bvh_file, vres, getStatus, validated, tmpCreated,
                    spawned, loopVars, procVars, result >>
    /\ UNCHANGED concVars

\* lines 105-107: return requests.post(...).text, whatever the status
Upload ==
    /\ pc = "upload"
    /\ \E status \in {200, 500} :
         /\ uploads' = Append(uploads, [file |-> lastLine.v, status |-> status])
         /\ result' = ResponseBody(status)
    /\ pc' = "returned"
    /\ phase' = "DONE"
    /\ tmpf' = Removed(tmpf)
    /\ UNCHANGED << envVars, bvh_file, vres, getStatus, validated, tmpCreated,
                    spawned, loopVars, procVars, failure >>
    /\ UNCHANGED concVars

\* lines 112-113: stdout is at its end; the renderer has exited with some
\* code, which the Popen object has not collected (neither poll nor wait is
\* called), so process.returncode is what Popen set it to
StdoutEof ==
    /\ pc = "lines"
    /\ exitCode' \in ExitCodes
    /\ stderrText' \in StderrTexts
    /\ UNCHANGED returncode
    /\ tmpf' = Removed(tmpf)
    /\ IF ExitRaises(returncode)
         THEN /\ pc' = "failed"
              /\ phase' = "FAILED"
              /\ failure' = TaskFailureOf(stderrText')
              /\ UNCHANGED result
         ELSE /\ pc' = "returned"
              /\ phase' = "DONE"
              /\ result' = "None"
              /\ UNCHANGED failure
    /\ UNCHANGED << envVars, bvh_file, vres, getStatus, validated, tmpCreated,
                    spawned, loopVars, uploads >>
    /\ UNCHANGED concVars

Next ==
    \/ Pickup
    \/ FetchRaises
    \/ Fetch
    \/ RunValidator
    \/ Spawn
    \/ SpawnRaises
    \/ ReadLine
    \/ UploadOpenRaises
    \/ UploadRaises
    \/ Upload
    \/ StdoutEof

Spec == Init /\ [][Next]_vars

-----------------------------------------------------------------------------
(* Specification SpecC: two render invocations running concurrently.        *)
(* Each has its own locals (inv[t]); what they share is the environment,    *)
(* the temporary directory and the result backend.                          *)
(***************************************************************************)

oneVars == << bvh_file, vres, pc, phase, getStatus, validated, tmpf,
              tmpCreated, spawned, loopVars, uploads, procVars, result,
              failure >>

ConcStdoutAlphabet ==
    {L("total_frames", 20), L("Append frame", 1), L("Append frame", 2),
     L("output_file", 1), L("malformed", 0), L("other", 0)}

ConcServedFiles == {GoodShort, GoodLong, MissingRow}

\* a temporary file created under a name that may be in use
FreeNames_Any(dir) == TmpNames

\* line 75: NamedTemporaryFile creates the file exclusively, under a name
\* no file of the directory has
FreeNames(dir) == {n \in TmpNames : dir[n] = NoFile}

\* self.update_state and the stored result go to the entry of the task id
BackendKey(t) == t

\* the exception exc leaves render
Fail(r, exc) ==
    [r EXCEPT !.pc = "failed", !.state = "FAILED", !.failure = exc]

\* exit of the with block: the file is unlinked by its name
Unlinked(dir, name) == [dir EXCEPT ![name] = NoFile]

Report(t, r) == backend' = [backend EXCEPT ![BackendKey(t)] = EntryOf(r)]

InitC ==
    /\ ConcIdle
    /\ MAX_NUMBER_FRAMES \in MaxFramesValues
    /\ RENDER_FPS \in FpsValues
    /\ bvh_file = NoFile
    /\ vres = NotRun
    /\ pc = "concurrent"
    /\ RenderIdle

\* lines 69-70
CPickup(t) ==
    /\ inv[t].pc = "start"
    /\ LET r == [inv[t] EXCEPT !.pc = "fetch", !.state = "PROCESSING"]
       IN  /\ inv' = [inv EXCEPT ![t] = r]
           /\ Report(t, r)
    /\ UNCHANGED << envVars, oneVars, tmpdir >>

\* line 72: requests.get raises
CFetchRaises(t) ==
    /\ inv[t].pc = "fetch"
    /\ LET r == Fail(inv[t], Exception("ConnectionError"))
       IN  /\ inv' = [inv EXCEPT ![t] = r]
           /\ Report(t, r)
    /\ UNCHANGED << envVars, oneVars, tmpdir >>

\* line 72: requests.get(...).content
CFetch(t) ==
    /\ inv[t].pc = "fetch"
    /\ \E body \in ConcServedFiles \cup {ErrorPage} :
         inv' = [inv EXCEPT ![t] = [@ EXCEPT !.pc = "validate", !.file = body]]
    /\ UNCHANGED << envVars, oneVars, tmpdir, backend >>

\* line 73
CRunValidator(t) ==
    /\ inv[t].pc = "validate"
    /\ LET out == validate_bvh_file(inv[t].file, MAX_NUMBER_FRAMES, RENDER_FPS)
       IN  IF AfterValidation(out) = "failed"
             THEN LET r == Fail(inv[t], out)
                  IN  /\ inv' = [inv EXCEPT ![t] = r]
                      /\ Report(t, r)
             ELSE /\ inv' = [inv EXCEPT ![t] = [@ EXCEPT !.pc = "spawn"]]
                  /\ UNCHANGED backend
    /\ UNCHANGED << envVars, oneVars, tmpdir >>

\* lines 75-93
CSpawn(t) ==
    /\ inv[t].pc = "spawn"
    /\ \E name \in FreeNames(tmpdir) :
         /\ tmpdir' = [tmpdir EXCEPT ![name] = Written(inv[t].file)]
         /\ inv' = [inv EXCEPT ![t] =
                      [@ EXCEPT !.pc = "lines", !.tmpname = name,
                                !.total = None, !.current = None]]
    /\ UNCHANGED << envVars, oneVars, backend >>

\* lines 75-91: Popen raises; the file is created and unlinked again
CSpawnRaises(t) ==
    /\ inv[t].pc = "spawn"
    /\ \E name \in FreeNames(tmpdir) :
         tmpdir' = Unlinked([tmpdir EXCEPT ![name] = Written(inv[t].file)], name)
    /\ LET r == Fail(inv[t], Exception("OSError"))
       IN  /\ inv' = [inv EXCEPT ![t] = r]
           /\ Report(t, r)
    /\ UNCHANGED << envVars, oneVars >>

\* lines 94-111
CReadLine(t) ==
    /\ inv[t].pc = "lines"
    /\ inv[t].nread < MaxConcStdout
    /\ \E line \in ConcStdoutAlphabet :
         LET r0 == [inv[t] EXCEPT !.nread = @ + 1]
         IN  IF Raises(line)
               THEN LET r == Fail(r0, Exception("ValueError"))
                    IN  /\ inv' = [inv EXCEPT ![t] = r]
                        /\ Report(t, r)
                        /\ tmpdir' = Unlinked(tmpdir, inv[t].tmpname)
               ELSE LET r1 == [r0 EXCEPT
                                 !.total = NewTotal(line, @),
                                 !.current = NewCurrent(line, @),
                                 !.pc = IF IsOutputFile(line)
                                          THEN "upload" ELSE "lines"]
                    IN  IF ReachesProgressTest(line)
                             /\ ShouldPublish(r1.total, r1.current)
                          THEN LET r == [r1 EXCEPT
                                           !.state = "RENDERING",
                                           !.meta = Update(r1.total, r1.current)]
                               IN  /\ inv' = [inv EXCEPT ![t] = r]
                                   /\ Report(t, r)
                                   /\ UNCHANGED tmpdir
                          ELSE /\ inv' = [inv EXCEPT ![t] = r1]
                               /\ UNCHANGED << backend, tmpdir >>
    /\ UNCHANGED << envVars, oneVars >>

\* lines 104-107: open or requests.post raises
CUploadRaises(t) ==
    /\ inv[t].pc = "upload"
    /\ \E exc \in {"FileNotFoundError", "ConnectionError"} :
         LET r == Fail(inv[t], Exception(exc))
         IN  /\ inv' = [inv EXCEPT ![t] = r]
             /\ Report(t, r)
    /\ tmpdir' = Unlinked(tmpdir, inv[t].tmpname)
    /\ UNCHANGED << envVars, oneVars >>

\* lines 105-107
CUpload(t) ==
    /\ inv[t].pc = "upload"
    /\ \E status \in {200, 500} :
         LET r == [inv[t] EXCEPT !.pc = "returned", !.state = "DONE",
                                 !.result = ResponseBody(status)]
         IN  /\ inv' = [inv EXCEPT ![t] = r]
             /\ Report(t, r)
    /\ tmpdir' = Unlinked(tmpdir, inv[t].tmpname)
    /\ UNCHANGED << envVars, oneVars >>

\* lines 112-113; process.returncode is None
CStdoutEof(t) ==
    /\ inv[t].pc = "lines"
    /\ \E err \in StderrTexts :
         LET r == IF ExitRaises(None)
                    THEN Fail(inv[t], TaskFailureOf(err))
                    ELSE [inv[t] EXCEPT !.pc = "returned", !.state = "DONE",
                                        !.result = "None"]
         IN  /\ inv' = [inv EXCEPT ![t] = r]
             /\ Report(t, r)
    /\ tmpdir' = Unlinked(tmpdir, inv[t].tmpname)
    /\ UNCHANGED << envVars, oneVars >>

NextC ==
    \E t \in Tasks :
        \/ CPickup(t)
        \/ CFetchRaises(t)
        \/ CFetch(t)
        \/ CRunValidator(t)
        \/ CSpawn(t)
        \/ CSpawnRaises(t)
        \/ CReadLine(t)
        \/ CUploadRaises(t)
        \/ CUpload(t)
        \/ CStdoutEof(t)

SpecC == InitC /\ [][NextC]_vars

-----------------------------------------------------------------------------
(* Properties of validate_bvh_file, checked under SpecV *)

\* the Frames field and the Frame Time field as the BVH reader yields them,
\* and the recounted number of motion rows
Declared == nframes(bvh_file)
DeclaredTime == frame_time(bvh_file)
Recounted == Counter(bvh_file)

Ran == vres # NotRun
Parsable == Decodes(bvh_file) /\ Declared # None
WellFormed == Parsable /\ DeclaredTime # None
TimeAsRequired == DeclaredTime * RENDER_FPS = 1000000
WithinLimit == MAX_NUMBER_FRAMES = -1 \/ Declared <= MAX_NUMBER_FRAMES

\* C2 as stated: a well-formed file whose Frames field equals the recounted
\* rows and whose frame time equals 1/RENDER_FPS is accepted
C2_AsStated ==
    (Ran /\ WellFormed /\ Declared = Recounted /\ TimeAsRequired)
        => vres = Ok

\* C2: a well-formed file whose Frames field equals the recounted rows, whose
\* frame time equals 1/RENDER_FPS and whose Frames field does not exceed
\* MAX_NUMBER_FRAMES (or MAX_NUMBER_FRAMES is -1) is accepted
C2_AcceptsConsistent ==
    (Ran /\ WellFormed /\ Declared = Recounted /\ TimeAsRequired /\ WithinLimit)
        => vres = Ok

C2_Witness ==
    /\ vres = Ok
    /\ MAX_NUMBER_FRAMES = 1
    /\ Declared = 1
    /\ Recounted = 1

\* C3: a parsable file whose recounted rows differ from the Frames field
\* fails with the frame count mismatch carrying both numbers, whatever the
\* frame time, the limit and the Frames field are
C3_CountMismatchFirst ==
    (Ran /\ Parsable /\ Declared # Recounted)
        => vres = Outcome("TaskFailure", "frame count mismatch",
                          Recounted, Declared)

C3_Witness ==
    /\ vres.reason = "frame count mismatch"
    /\ Recounted = 1
    /\ Declared = 2
    /\ MAX_NUMBER_FRAMES = 1
    /\ ~TimeAsRequired

\* C4 as stated: a file whose Frames field exceeds a finite
\* MAX_NUMBER_FRAMES fails with the too many frames reason
C4_AsStated ==
    (Ran /\ Parsable /\ MAX_NUMBER_FRAMES # -1 /\ Declared > MAX_NUMBER_FRAMES)
        => vres = Outcome("TaskFailure", "too many frames",
                          Declared, MAX_NUMBER_FRAMES)

\* C4: a file whose Frames field equals the recounted rows and exceeds a
\* finite MAX_NUMBER_FRAMES fails with the too many frames reason citing the
\* Frames field and the limit
C4_TooManyFrames ==
    (Ran /\ Parsable /\ Declared = Recounted
         /\ MAX_NUMBER_FRAMES # -1 /\ Declared > MAX_NUMBER_FRAMES)
        => vres = Outcome("TaskFailure", "too many frames",
                          Declared, MAX_NUMBER_FRAMES)

C4_Witness ==
    /\ vres.reason = "too many frames"
    /\ Declared = 2
    /\ Recounted = 2
    /\ MAX_NUMBER_FRAMES = 1

\* C5 as stated: a file whose frame time differs from 1/RENDER_FPS fails
\* with the frame time mismatch reason
C5_AsStated ==
    (Ran /\ WellFormed /\ ~TimeAsRequired)
        => vres = Outcome("TaskFailure", "frame time mismatch",
                          DeclaredTime, RENDER_FPS)

\* C5: a file whose Frames field equals the recounted rows and is within the
\* limit, and whose frame time differs from 1/RENDER_FPS, fails with the
\* frame time mismatch reason
C5_FrameTimeMismatch ==
    (Ran /\ WellFormed /\ Declared = Recounted /\ WithinLimit
         /\ ~TimeAsRequired)
        => vres = Outcome("TaskFailure", "frame time mismatch",
                          DeclaredTime, RENDER_FPS)

C5_Witness ==
    /\ vres.reason = "frame time mismatch"
    /\ DeclaredTime = 40000
    /\ RENDER_FPS = 20
    /\ Declared = Recounted

\* C6: with MAX_NUMBER_FRAMES = -1 no file fails with the too many frames
\* reason, and a file whose rows and frame time are consistent is accepted
\* whatever its Frames field is
C6_Unlimited ==
    (Ran /\ MAX_NUMBER_FRAMES = -1)
        => /\ vres.reason # "too many frames"
           /\ (WellFormed /\ Declared = Recounted /\ TimeAsRequired)
                  => vres = Ok

C6_Witness ==
    /\ vres = Ok
    /\ MAX_NUMBER_FRAMES = -1
    /\ Declared = 2

-----------------------------------------------------------------------------
(* Properties of render, checked under Spec *)

\* C1: a temporary file, a renderer subprocess or an upload exists only once
\* validate_bvh_file has returned without raising on the fetched bytes; when
\* it raised there is none of them; and the temporary file holds exactly the
\* validated bytes
C1_ValidatedBeforeSpawn ==
    /\ (spawned > 0 \/ tmpCreated > 0 \/ uploads # << >>)
           => /\ vres = Ok
              /\ validated = bvh_file
              /\ validate_bvh_file(bvh_file, MAX_NUMBER_FRAMES, RENDER_FPS) = Ok
    /\ vres \notin {NotRun, Ok}
           => /\ spawned = 0
              /\ tmpCreated = 0
              /\ ~tmpf.exists
              /\ uploads = << >>
    /\ tmpCreated > 0 => tmpf.data = validated

C1_Witness ==
    /\ spawned = 1
    /\ tmpf.exists
    /\ tmpf.data = GoodLong
    /\ nread = 1

\* C7: every RENDERING update carries the values parsed last (the value of
\* the line just read, else the value parsed before it), and none is
\* published before a total_frames line and an Append frame line were read
C7_LatestPair ==
    [][published' # published
           => /\ seenTotal' /\ seenAppend'
              /\ published' =
                   Append(published,
                          [current |-> IF lastLine'.k = "Append frame"
                                         THEN lastLine'.v ELSE current_frame,
                           total |-> IF lastLine'.k = "total_frames"
                                       THEN lastLine'.v \div 10 ELSE total])]_vars

C7_Witness ==
    /\ Len(published) = 2
    /\ published[1] = [current |-> 1, total |-> 1]
    /\ published[2] = [current |-> 1, total |-> 2]

\* C8 as stated: once a total_frames line and an Append frame line have been
\* read, whatever their values, every line that sets one of the two values
\* publishes a RENDERING update with the latest pair
C8_AsStated ==
    [][(nread' = nread + 1
          /\ lastLine'.k \in {"total_frames", "Append frame"}
          /\ seenTotal' /\ seenAppend')
           => published' =
                Append(published,
                       [current |-> current_frame', total |-> total'])]_vars

\* C9: reading an output_file line publishes nothing and leads to the upload
\* step; from then on no line is read and no update published, the only
\* step is the upload of the file the line names, and a returned result is
\* the response body of that one POST
C9_OutputFileShortCircuits ==
    [][/\ (nread' = nread + 1 /\ lastLine'.k = "output_file")
            => /\ pc' = "upload"
               /\ published' = published
               /\ uploads' = uploads
       /\ lastLine.k = "output_file"
            => /\ nread' = nread
               /\ lastLine' = lastLine
               /\ published' = published
               /\ pc = "upload" /\ pc' \in {"returned", "failed"}
               /\ pc' = "returned"
                    => /\ Len(uploads') = 1
                       /\ uploads'[1].file = lastLine.v
                       /\ result' = ResponseBody(uploads'[1].status)]_vars

C9_Witness ==
    /\ pc = "returned"
    /\ lastLine.k = "output_file"
    /\ total = 2
    /\ current_frame = 1
    /\ Len(published) = 1
    /\ result = "video-url"

\* C10: when stdout ended with no output_file line read and the renderer
\* exited with a code other than 0, render has raised TaskFailure with the
\* whole stderr text as its message
C10_NonZeroExitFails ==
    (exitCode # None /\ exitCode # 0)
        => /\ pc = "failed"
           /\ phase = "FAILED"
           /\ failure = TaskFailureOf(stderrText)
           /\ lastLine.k # "output_file"

C10_Witness ==
    /\ exitCode = 1
    /\ failure = TaskFailureOf("render engine crashed")
    /\ nread = 2

\* C11: when a render invocation has ended, by a return or by any exception,
\* the temporary file it created no longer exists, and an invocation that
\* failed validation never created one
C11_TmpRemovedAtEnd ==
    /\ pc \in {"returned", "failed"} => ~tmpf.exists
    /\ (pc = "failed" /\ vres \notin {NotRun, Ok})
           => (tmpCreated = 0 /\ ~tmpf.exists)
    /\ tmpf.exists => (tmpCreated = 1 /\ pc \in {"lines", "upload"})

C11_Witness ==
    /\ pc = "failed"
    /\ failure = Exception("ValueError")
    /\ tmpCreated = 1
    /\ tmpf = [exists |-> FALSE, data |-> GoodShort]

\* the phase changes the state machine of C12 allows, and those with the
\* change from Processing to Done added
PhaseChangesAsStated ==
    { <<"QUEUED", "PROCESSING">>, <<"PROCESSING", "RENDERING">>,
      <<"RENDERING", "DONE">>, <<"QUEUED", "FAILED">>,
      <<"PROCESSING", "FAILED">>, <<"RENDERING", "FAILED">> }
PhaseChanges == PhaseChangesAsStated \cup { <<"PROCESSING", "DONE">> }

\* C12 as stated: the phase follows Queued -> Processing -> Rendering ->
\* {Done | Failed}, PROCESSING is published before the GET, Failed is entered
\* from a non-terminal phase and Done only from Rendering, after an
\* output_file line and the upload
C12_AsStated ==
    [][/\ phase' # phase => << phase, phase' >> \in PhaseChangesAsStated
       /\ phase' = "QUEUED" => (pc' = "start" /\ getStatus' = 0)
       /\ phase' = "DONE"
            => (lastLine'.k = "output_file" /\ Len(uploads') = 1)]_vars

\* C12: the phase never moves backwards and changes only along Queued ->
\* Processing -> Rendering, to Failed from a non-terminal phase, and to Done
\* from Processing or Rendering; PROCESSING is published before the GET or
\* any other step, and Done is entered only after an output_file line was
\* read and the upload POST answered
C12_PhaseMachine ==
    [][/\ phase' # phase => << phase, phase' >> \in PhaseChanges
       /\ phase' = "QUEUED"
            => (pc' = "start" /\ getStatus' = 0 /\ bvh_file' = NoFile)
       /\ phase' = "DONE"
            => /\ lastLine'.k = "output_file"
               /\ Len(uploads') = 1
               /\ uploads'[1].status # 0]_vars

C12_Witness ==
    /\ phase = "DONE"
    /\ published = << >>
    /\ nread = 2
    /\ Len(uploads) = 1

-----------------------------------------------------------------------------
(* Statements the code does not meet *)

HasMotion == \E i \in 1..Len(bvh_file) : Strip(bvh_file[i]) = Motion

\* C13 as stated (SpecV): every input validate_bvh_file rejects is rejected
\* with a TaskFailure, in particular bytes that are no UTF-8 and content
\* with no MOTION line
C13_AsStated ==
    /\ (Ran /\ vres # Ok) => vres.exc = "TaskFailure"
    /\ (Ran /\ ~Decodes(bvh_file)) => vres.exc = "TaskFailure"
    /\ (Ran /\ Decodes(bvh_file) /\ ~HasMotion) => vres.exc = "TaskFailure"

\* C14 as stated: an upload POST that fails or is answered with a status
\* other than success ends the invocation Failed, and Done with the response
\* body as result is reached only when the upload succeeded
C14_AsStated ==
    /\ (uploads # << >> /\ uploads[1].status # 200)
           => (pc = "failed" /\ phase = "FAILED")
    /\ phase = "DONE"
           => (uploads # << >> /\ uploads[1].status = 200
                 /\ result = ResponseBody(200))

\* C15 as stated: a GET that fails or is answered with a status other than
\* success ends the invocation there: its body never reaches the validator,
\* and no temporary file, subprocess or upload follows
C15_AsStated ==
    /\ getStatus \notin {0, 200}
           => (vres = NotRun /\ tmpCreated = 0 /\ spawned = 0
                 /\ uploads = << >>)
    /\ failure = Exception("ConnectionError") /\ uploads = << >>
           => (vres = NotRun /\ tmpCreated = 0 /\ spawned = 0)

\* C17 as stated: when the renderer exited with code 0 and stdout ended with
\* no output_file line read, render raises nothing and returns None
C17_AsStated ==
    (exitCode = 0 /\ lastLine.k # "output_file")
        => (pc = "returned" /\ failure = NotRun /\ result = "None")

-----------------------------------------------------------------------------
(* The recount of validate_bvh_file, checked under SpecV *)

\* the last line that is MOTION after trimming (0: there is none), and the
\* number of lines after it that are not blank, less the two header lines
MarkerAt(content) ==
    LET at == {i \in 1..Len(content) : content[i].k = "MOTION"}
    IN  IF at = {} THEN 0 ELSE CHOOSE i \in at : \A j \in at : j <= i
RowsAfterMarker(content) ==
    IF MarkerAt(content) = 0 THEN None
    ELSE Cardinality({j \in (MarkerAt(content) + 1)..Len(content) :
                         content[j].k # "blank"}) - 2
WithoutBlanks(content) == SelectSeq(content, LAMBDA line : line.k # "blank")

\* C18: the recounted frame count is the number of lines that follow the
\* (last) MOTION line and are not empty after trimming, minus 2; blank lines
\* never change it; it stays unarmed when no line is MOTION; and it is the
\* number validate_bvh_file compares with the Frames field and reports
C18_Recount ==
    (Ran /\ Decodes(bvh_file))
        => /\ Recounted = RowsAfterMarker(bvh_file)
           /\ Counter(WithoutBlanks(bvh_file)) = Recounted
           /\ Parsable
                => /\ vres.reason = "frame count mismatch"
                        <=> Declared # RowsAfterMarker(bvh_file)
                   /\ vres.reason = "frame count mismatch"
                        => vres.a = RowsAfterMarker(bvh_file)

C18_Witness ==
    /\ vres = Ok
    /\ bvh_file = << Motion, L("Frames:", 1), L("Frame Time:", 40000),
                     L("blank", 1), Row >>
    /\ Recounted = 1

-----------------------------------------------------------------------------
(* Further properties of render, checked under Spec *)

\* C19: reading a line with none of the three prefixes changes neither
\* total nor current_frame, leaves the published pair as it was (at most the
\* same pair is published once more), makes no upload, and neither ends the
\* loop nor fails the task
C19_OtherLineIgnored ==
    [][(nread' = nread + 1 /\ lastLine'.k = "other")
           => /\ total' = total
              /\ current_frame' = current_frame
              /\ seenTotal' = seenTotal /\ seenAppend' = seenAppend
              /\ \/ published' = published
                 \/ /\ published # << >>
                    /\ published' =
                         Append(published, published[Len(published)])
              /\ phase' = phase
              /\ uploads' = uploads
              /\ pc' = "lines"
              /\ failure' = failure /\ result' = result
              /\ tmpf' = tmpf]_vars

C19_Witness ==
    /\ lastLine.k = "other"
    /\ nread = 3
    /\ total = 2
    /\ current_frame = 1
    /\ pc = "lines"

\* C20: a render invocation makes at most one upload POST, and only after
\* validation succeeded, the renderer was spawned and an output_file line
\* was read; an invocation that failed after the line loop made none
C20_OneUpload ==
    /\ Len(uploads) <= 1
    /\ uploads # << >>
         => /\ vres = Ok
            /\ spawned = 1
            /\ lastLine.k = "output_file"
            /\ uploads[1].file = lastLine.v
            /\ pc \in {"returned", "failed"}
    /\ exitCode # None => (uploads = << >> /\ pc \in {"returned", "failed"})

C20_Witness ==
    /\ Len(uploads) = 1
    /\ uploads[1].status = 0
    /\ pc = "failed"
    /\ nread = 3

-----------------------------------------------------------------------------
(* Concurrent invocations, checked under SpecC *)

InBlock(t) == inv[t].pc \in {"lines", "upload"}

\* C16: in every interleaving of two invocations, a step of one leaves the
\* other's locals, backend entry and temporary file as they were; the
\* temporary file of an invocation holds the bytes it wrote for as long as
\* it is in the with block, and is the only file it leaves or removes; and
\* the backend shows of each invocation the progress, result and failure it
\* reported itself, as when it runs alone
C16_Independent ==
    [][/\ \A t \in Tasks :
            /\ backend'[t] = EntryOf(inv'[t])
            /\ inv'[t].pc \in {"lines", "upload"}
                 => /\ inv'[t].tmpname \in TmpNames
                    /\ tmpdir'[inv'[t].tmpname] = inv'[t].file
                    /\ \A u \in Tasks \ {t} :
                         inv'[u].pc \in {"lines", "upload"}
                             => inv'[u].tmpname # inv'[t].tmpname
       /\ Cardinality({n \in TmpNames : tmpdir'[n] # NoFile})
              = Cardinality({t \in Tasks : inv'[t].pc \in {"lines", "upload"}})
       /\ \E t \in Tasks :
            \A u \in Tasks \ {t} :
                /\ inv'[u] = inv[u]
                /\ backend'[u] = backend[u]
                /\ InBlock(u)
                     => tmpdir'[inv[u].tmpname] = tmpdir[inv[u].tmpname]]_vars

C16_Witness ==
    /\ inv["task-1"].pc = "lines"
    /\ inv["task-1"].file = GoodShort
    /\ backend["task-1"].state = "RENDERING"
    /\ inv["task-2"].pc = "upload"
    /\ inv["task-2"].file = GoodLong
    /\ backend["task-2"].meta = NoMeta

====
